---------------------------- MODULE Spec2Model ----------------------------
(***************************************************************************)
(* Model of evaluate_motion_primitives_from_trajectory_controller:         *)
(* compare_planned_and_executed_trajectory.py (motion-segment trimming,    *)
(* arc-length parametrization, duplicate filtering, resampling and the     *)
(* RMSE metrics of the joint-space and the Cartesian-space pipeline), and   *)
(* the pose recovery of compare.py (main).                                 *)
(*                                                                         *)
(* Real numbers are exact rationals <<num, den>> in lowest terms with      *)
(* den > 0.  A data frame is a sequence of rows [t, vel, pos]: t is the    *)
(* sample's position in the recorded file (it gives a row an identity),    *)
(* vel the values of the columns whose name contains "vel", pos the values *)
(* of the position channels the call selects.  pandas index labels are     *)
(* 0-based, TLA+ sequences 1-based: label k is element k + 1.              *)
(***************************************************************************)
EXTENDS Integers, Sequences, FiniteSets, TLC

VARIABLES
    pc,                  \* position in the called function
    mode,                \* "joint" | "cartesian": which comparison runs
    vel_threshold,       \* argument vel_threshold
    n_points,            \* argument n_points
    df_planned,          \* rows read from filepath_planned
    df_executed,         \* rows read from filepath_executed
    vel_cols,            \* number of columns of the executed file named "...vel..."
    start_index,         \* moving_mask.idxmax()
    end_index,           \* moving_mask[::-1].idxmax()
    df_executed_clean,   \* the executed rows after the trimming block
    interp_x,            \* the x arrays handed to interp1d so far, in call order
    planned_resampled,   \* interp_planned(np.linspace(0, 1, n_points))
    executed_resampled,  \* interp_executed(np.linspace(0, 1, n_points))
    rmse,                \* per-channel RMSE, squared (joint pipeline)
    total_rmse,          \* total RMSE, squared (joint pipeline)
    rmse_3d,             \* 3-D RMSE, squared (Cartesian pipeline)
    error,               \* the exception that ended the call, or "none"
    positions,           \* argument of a direct call of a helper function
    s,                   \* argument s of remove_duplicate_points
    ret,                 \* what a directly called helper returned or raised
    pose_columns,        \* the pose columns the executed file holds
    fk,                  \* the FKClient of main: "none" | "created" | "shutdown"
    fk_calls,            \* the compute_fk calls made so far, in call order
    poses,               \* the list poses of main
    iter_row,            \* number of rows df_executed.iterrows() has yielded
    file_writes          \* the poses each df_executed.to_csv call has saved

vars == <<pc, mode, vel_threshold, n_points, df_planned, df_executed, vel_cols,
          start_index, end_index, df_executed_clean, interp_x,
          planned_resampled, executed_resampled, rmse, total_rmse, rmse_3d,
          error, positions, s, ret, pose_columns, fk, fk_calls, poses,
          iter_row, file_writes>>

inputVars == <<mode, vel_threshold, n_points, df_planned, df_executed, vel_cols>>
trimVars == <<start_index, end_index, df_executed_clean>>
resampleVars == <<interp_x, planned_resampled, executed_resampled>>
metricVars == <<rmse, total_rmse, rmse_3d>>
helperVars == <<positions, s, ret>>
mainVars == <<pose_columns, fk, fk_calls, poses, iter_row, file_writes>>

\* Value of a variable the code has not assigned yet.
None == "none"

-----------------------------------------------------------------------------
(* Bounds of the model. *)

\* Longest executed frame of the trimming specification.
MaxTrimRows == 3
\* Longest executed frame of the pipeline specification.
MaxExecRows == 3
\* Longest planned frame of the pipeline specification.
MaxPlanRows == 2
\* Largest n_points of the pipeline specification.
MaxNPoints == 3
\* Longest position sequence of a direct call of the parametrizer.
MaxArcPoints == 3
\* Longest coordinate sequence of a direct call of the duplicate filter.
MaxDupLen == 4
\* Longest executed frame of the pose-recovery specification.
MaxFkRows == 3

\* Velocity values of the trimming specification: below -threshold, zero,
\* equal to the largest threshold, above it.
TrimVel == {-2, 0, 1, 2}
\* Numbers of velocity columns in the executed file.
VelColCounts == {0, 1, 2}
\* Thresholds: negative, the default 0.0, positive.
Thresholds == {-1, 0, 1}

-----------------------------------------------------------------------------
(* Exact rational arithmetic. *)

Abs(x) == IF x < 0 THEN -x ELSE x

RECURSIVE GCD(_, _)
GCD(a, b) == IF b = 0 THEN a ELSE GCD(b, a % b)

Frac(n, d) ==
    LET g == GCD(Abs(n), Abs(d))
        sgn == IF d < 0 THEN -1 ELSE 1
    IN  <<sgn * (n \div g), sgn * (d \div g)>>

FInt(n) == <<n, 1>>
FAdd(a, b) == Frac(a[1] * b[2] + b[1] * a[2], a[2] * b[2])
FSub(a, b) == Frac(a[1] * b[2] - b[1] * a[2], a[2] * b[2])
FMul(a, b) == Frac(a[1] * b[1], a[2] * b[2])
FDiv(a, b) == Frac(a[1] * b[2], a[2] * b[1])
FLt(a, b) == a[1] * b[2] < b[1] * a[2]
FLe(a, b) == a[1] * b[2] <= b[1] * a[2]

RECURSIVE FSum(_)
FSum(q) == IF q = <<>> THEN FInt(0) ELSE FAdd(q[1], FSum(Tail(q)))

Range(q) == {q[i] : i \in DOMAIN q}

RECURSIVE SeqsUpTo(_, _)
SeqsUpTo(S, n) ==
    IF n = 0 THEN {<<>>}
    ELSE LET shorter == SeqsUpTo(S, n - 1)
         IN  shorter \cup {Append(q, x) : q \in {r \in shorter : Len(r) = n - 1}, x \in S}

-----------------------------------------------------------------------------
(* The trimming block: lines 33-38 (joint) and 128-134 (Cartesian). *)

\* moving_mask = ~(df_executed[vel_cols] <= vel_threshold).all(axis=1):
\* row k is moving unless every velocity column is <= the threshold (the
\* comparison is signed; with no velocity column .all() is vacuously True).
MovingMask(df, thr) ==
    [k \in DOMAIN df |-> ~(\A c \in DOMAIN df[k].vel : df[k].vel[c] <= thr)]

\* Series.idxmax(): the label of the first occurrence of the maximum.  On
\* a boolean mask: the first True, or label 0 when every entry is False.
StartIndexOf(mask) ==
    IF \E k \in DOMAIN mask : mask[k]
    THEN (CHOOSE k \in DOMAIN mask :
             mask[k] /\ \A j \in DOMAIN mask : mask[j] => k <= j) - 1
    ELSE 0

\* A slip a reader of line 37 could make: idxmax of the unreversed mask.
EndIndexUnreversed(mask) == StartIndexOf(mask)

\* A slip: the all-False reversed mask resolved to the first label.
EndIndexFirstWhenStill(mask) ==
    IF \E k \in DOMAIN mask : mask[k]
    THEN (CHOOSE k \in DOMAIN mask :
             mask[k] /\ \A j \in DOMAIN mask : mask[j] => j <= k) - 1
    ELSE 0

\* moving_mask[::-1].idxmax(): the first maximum of the reversed series,
\* that is the last True, or the last label when every entry is False.
EndIndexOf(mask) ==
    IF \E k \in DOMAIN mask : mask[k]
    THEN (CHOOSE k \in DOMAIN mask :
             mask[k] /\ \A j \in DOMAIN mask : mask[j] => j <= k) - 1
    ELSE Len(mask) - 1

\* df.loc[start:end].reset_index(drop=True): label slicing includes both ends.
LocSlice(df, first, last) == SubSeq(df, first + 1, last + 1)

\* Lines 34-38: the joint pipeline trims unconditionally.  idxmax raises
\* ValueError on an empty series.
JointTrim ==
    /\ pc = "start"
    /\ mode = "joint"
    /\ LET mask == MovingMask(df_executed, vel_threshold)
       IN  IF df_executed = <<>>
           THEN /\ pc' = "error"
                /\ error' = "EmptyArgmax"
                /\ UNCHANGED trimVars
           ELSE /\ start_index' = StartIndexOf(mask)
                /\ end_index' = EndIndexOf(mask)
                /\ df_executed_clean' =
                       LocSlice(df_executed, StartIndexOf(mask), EndIndexOf(mask))
                /\ pc' = "trimmed"
                /\ UNCHANGED error
    /\ UNCHANGED <<mainVars, inputVars, resampleVars, metricVars, helperVars>>

\* Lines 129-134: the Cartesian pipeline trims only when there is a
\* velocity column and the threshold is positive.
CartesianTrim ==
    /\ pc = "start"
    /\ mode = "cartesian"
    /\ LET mask == MovingMask(df_executed, vel_threshold)
       IN  IF vel_cols > 0 /\ vel_threshold > 0
           THEN IF df_executed = <<>>
                THEN /\ pc' = "error"
                     /\ error' = "EmptyArgmax"
                     /\ UNCHANGED trimVars
                ELSE /\ start_index' = StartIndexOf(mask)
                     /\ end_index' = EndIndexOf(mask)
                     /\ df_executed_clean' =
                            LocSlice(df_executed, StartIndexOf(mask), EndIndexOf(mask))
                     /\ pc' = "trimmed"
                     /\ UNCHANGED error
           ELSE /\ df_executed_clean' = df_executed
                /\ pc' = "trimmed"
                /\ UNCHANGED <<start_index, end_index, error>>
    /\ UNCHANGED <<mainVars, inputVars, resampleVars, metricVars, helperVars>>

-----------------------------------------------------------------------------
(* The trimming specification: every executed frame up to MaxTrimRows rows *)
(* over TrimVel, and the recorded scenario of ten samples.                 *)

Origin == <<0, 0, 0>>

\* Rows numbered 1..Len(vs) with the velocity tuples vs and positions ps.
MkFrame(vs, ps) == [k \in DOMAIN vs |-> [t |-> k, vel |-> vs[k], pos |-> ps[k]]]

StillPos(n) == [k \in 1..n |-> Origin]

VelTuples(S, c) == [1..c -> S]

\* [0,0,0,2,3,4,2,0,0,0], one velocity channel.
ScenarioVel == <<<<0>>, <<0>>, <<0>>, <<2>>, <<3>>, <<4>>, <<2>>, <<0>>, <<0>>, <<0>>>>

\* The executed frames with c velocity columns.
TrimFrames(c) ==
    {MkFrame(vs, StillPos(Len(vs))) :
        vs \in SeqsUpTo(VelTuples(TrimVel, c), MaxTrimRows)
               \cup (IF c = 1 THEN {ScenarioVel} ELSE {})}

Unassigned ==
    /\ start_index = None
    /\ end_index = None
    /\ df_executed_clean = None
    /\ interp_x = <<>>
    /\ planned_resampled = None
    /\ executed_resampled = None
    /\ rmse = None
    /\ total_rmse = None
    /\ rmse_3d = None
    /\ error = None

NoHelperCall ==
    /\ positions = None
    /\ s = None
    /\ ret = None

\* main is not running: the comparison or helper is called on its own.
NoMainCall ==
    /\ pose_columns = {}
    /\ fk = None
    /\ fk_calls = <<>>
    /\ poses = <<>>
    /\ iter_row = 0
    /\ file_writes = <<>>

InitTrim ==
    /\ pc = "start"
    /\ mode \in {"joint", "cartesian"}
    /\ vel_threshold \in Thresholds
    /\ n_points = 1
    /\ df_planned = <<>>
    /\ vel_cols \in VelColCounts
    /\ df_executed \in TrimFrames(vel_cols)
    /\ Unassigned
    /\ NoHelperCall
    /\ NoMainCall

NextTrim == JointTrim \/ CartesianTrim

SpecTrim == InitTrim /\ [][NextTrim]_vars

-----------------------------------------------------------------------------
(* Helper functions: lines 236-251. *)

Dot(u, v) == u[1] * v[1] + u[2] * v[2] + u[3] * v[3]

\* The integer square root; exact on the squared lengths the model draws.
ISqrt(n) == CHOOSE r \in 0..n : r * r <= n /\ n < (r + 1) * (r + 1)

\* np.linalg.norm(diffs, axis=1), for one row of diffs.
Norm(v) == ISqrt(Dot(v, v))

\* np.diff(positions, axis=0): the differences of consecutive rows.
Diff(pts) ==
    [k \in 1..(Len(pts) - 1) |-> [c \in 1..3 |-> pts[k + 1][c] - pts[k][c]]]

\* dists = np.linalg.norm(diffs, axis=1)
Dists(pts) == [k \in DOMAIN Diff(pts) |-> Norm(Diff(pts)[k])]

RECURSIVE Sum(_)
Sum(q) == IF q = <<>> THEN 0 ELSE q[1] + Sum(Tail(q))

\* np.cumsum(dists)
CumSum(q) == [k \in DOMAIN q |-> Sum(SubSeq(q, 1, k))]

\* arc_lengths = np.concatenate([[0], np.cumsum(dists)])
ArcLengths(pts) == <<0>> \o CumSum(Dists(pts))

NeedTwoPoints == "Need at least two points for arc-length parametrization."
ZeroArcLength == "Arc length is zero. All positions are identical."
TooFewUnique == "Too few unique points after removing duplicates."

Raised(msg) == [raised |-> msg]
Returned(v) == [raised |-> None, value |-> v]

\* A slip: the parametrizer without the check of line 242; the division of
\* line 245 is then 0/0 for every row (recorded as "nan").
ArcLengthUnguarded(pts) ==
    IF Len(pts) < 2 THEN Raised(NeedTwoPoints)
    ELSE LET arc == ArcLengths(pts)
         IN  Returned([k \in DOMAIN arc |->
                          IF arc[Len(arc)] = 0 THEN "nan" ELSE Frac(arc[k], arc[Len(arc)])])

\* A slip: the leading 0 of line 244 left out.
ArcLengthNoLeadingZero(pts) ==
    IF Len(pts) < 2 THEN Raised(NeedTwoPoints)
    ELSE LET cum == CumSum(Dists(pts))
         IN  IF Sum(Dists(pts)) = 0 THEN Raised(ZeroArcLength)
             ELSE Returned([k \in DOMAIN cum |-> Frac(cum[k], cum[Len(cum)])])

\* A slip: a zero total length let through (the divisor of line 245 clamped
\* to 1), so that coincident points all get the coordinate 0.
ArcLengthZeroClamped(pts) ==
    IF Len(pts) < 2 THEN Raised(NeedTwoPoints)
    ELSE LET arc_lengths == ArcLengths(pts)
             total == IF arc_lengths[Len(arc_lengths)] = 0 THEN 1
                      ELSE arc_lengths[Len(arc_lengths)]
         IN  Returned([k \in DOMAIN arc_lengths |-> Frac(arc_lengths[k], total)])

\* Lines 236-246.
compute_arc_length_parametrization(pts) ==
    IF Len(pts) < 2 THEN Raised(NeedTwoPoints)
    ELSE LET total_length == Sum(Dists(pts))
             arc_lengths == ArcLengths(pts)
         IN  IF total_length = 0 THEN Raised(ZeroArcLength)
             ELSE Returned([k \in DOMAIN arc_lengths |->
                              Frac(arc_lengths[k], arc_lengths[Len(arc_lengths)])])

\* The elements of a finite set of rationals in ascending order.
RECURSIVE Ascending(_)
Ascending(S) ==
    IF S = {} THEN <<>>
    ELSE LET lo == CHOOSE x \in S : \A y \in S : FLe(x, y)
         IN  <<lo>> \o Ascending(S \ {lo})

FirstIndexOf(q, x) == CHOOSE i \in DOMAIN q : q[i] = x /\ \A j \in DOMAIN q : q[j] = x => i <= j
LastIndexOf(q, x) == CHOOSE i \in DOMAIN q : q[i] = x /\ \A j \in DOMAIN q : q[j] = x => j <= i

\* A slip: the index of the last occurrence of each value.
UniqueIndicesLast(q) ==
    LET u == Ascending(Range(q)) IN [k \in DOMAIN u |-> LastIndexOf(q, u[k])]

\* _, unique_indices = np.unique(s, return_index=True): for each distinct
\* value, in ascending order of the values, the index of its first
\* occurrence.
UniqueIndices(q) ==
    LET u == Ascending(Range(q)) IN [k \in DOMAIN u |-> FirstIndexOf(q, u[k])]

\* Lines 248-251: s[unique_indices], positions[unique_indices].
remove_duplicate_points(coords, values) ==
    LET unique_indices == UniqueIndices(coords)
    IN  <<[k \in DOMAIN unique_indices |-> coords[unique_indices[k]]],
          [k \in DOMAIN unique_indices |-> values[unique_indices[k]]]>>

-----------------------------------------------------------------------------
(* Resampling: lines 40-50 (joint) and 136-167 (Cartesian). *)

\* np.linspace(0, 1, n)
Linspace01(n) ==
    IF n = 1 THEN <<FInt(0)>> ELSE [k \in 1..n |-> Frac(k - 1, n - 1)]

\* df[names].values: the selected position channels as an array of reals.
Values(df) == [k \in DOMAIN df |-> [c \in DOMAIN df[k].pos |-> FInt(df[k].pos[c])]]
IntValues(df) == [k \in DOMAIN df |-> df[k].pos]

\* np.searchsorted(x, q): the number of elements of x below q.
SearchSorted(x, q) == Cardinality({i \in DOMAIN x : FLt(x[i], q)})

Clip(v, lo, hi) == IF v < lo THEN lo ELSE IF v > hi THEN hi ELSE v

\* interp1d(x, y, axis=0) evaluated at one coordinate q inside the domain:
\* y_lo + slope * (q - x_lo) on the segment searchsorted selects.
LinearAt(x, y, q) ==
    LET hi == Clip(SearchSorted(x, q), 1, Len(x) - 1) + 1
        lo == hi - 1
    IN  [c \in DOMAIN y[lo] |->
            FAdd(FMul(FDiv(FSub(y[hi][c], y[lo][c]), FSub(x[hi], x[lo])),
                      FSub(q, x[lo])),
                 y[lo][c])]

\* interp1d refuses an empty x, refuses (bounds_error) a coordinate outside
\* [x[0], x[-1]], and has no segment to interpolate on when x is a single
\* coordinate: in these cases no finite resampled array comes back.
InterpDefined(x, xnew) ==
    /\ Len(x) >= 2
    /\ \A k \in DOMAIN xnew : FLe(x[1], xnew[k]) /\ FLe(xnew[k], x[Len(x)])

Interp1d(x, y, xnew) == [k \in DOMAIN xnew |-> LinearAt(x, y, xnew[k])]

InterpFailed == "interp1d: no finite value on this domain"

\* Lines 40-50: the planned interpolator is built and evaluated first, then
\* the executed one, each on the normalized sample index.
JointResample ==
    /\ pc = "trimmed"
    /\ mode = "joint"
    /\ LET x_planned == Linspace01(Len(df_planned))
           x_executed == Linspace01(Len(df_executed_clean))
           x_new == Linspace01(n_points)
       IN  IF ~InterpDefined(x_planned, x_new)
           THEN /\ interp_x' = <<x_planned>>
                /\ pc' = "error"
                /\ error' = InterpFailed
                /\ UNCHANGED <<planned_resampled, executed_resampled>>
           ELSE /\ planned_resampled' = Interp1d(x_planned, Values(df_planned), x_new)
                /\ interp_x' = <<x_planned, x_executed>>
                /\ IF ~InterpDefined(x_executed, x_new)
                   THEN /\ pc' = "error"
                        /\ error' = InterpFailed
                        /\ UNCHANGED executed_resampled
                   ELSE /\ executed_resampled' =
                               Interp1d(x_executed, Values(df_executed_clean), x_new)
                        /\ pc' = "resampled"
                        /\ UNCHANGED error
    /\ UNCHANGED <<mainVars, inputVars, trimVars, metricVars, helperVars>>

\* Lines 136-167: parametrize both by arc length, filter duplicates, refuse
\* fewer than two coordinates, then interpolate.
CartesianResample ==
    /\ pc = "trimmed"
    /\ mode = "cartesian"
    /\ LET arc_planned == compute_arc_length_parametrization(IntValues(df_planned))
           arc_executed == compute_arc_length_parametrization(IntValues(df_executed_clean))
           x_new == Linspace01(n_points)
       IN  IF arc_planned.raised # None
           THEN /\ pc' = "error"
                /\ error' = arc_planned.raised
                /\ UNCHANGED resampleVars
           ELSE IF arc_executed.raised # None
           THEN /\ pc' = "error"
                /\ error' = arc_executed.raised
                /\ UNCHANGED resampleVars
           ELSE LET planned == remove_duplicate_points(arc_planned.value, Values(df_planned))
                    executed == remove_duplicate_points(arc_executed.value,
                                                        Values(df_executed_clean))
                IN  IF Len(planned[1]) < 2 \/ Len(executed[1]) < 2
                    THEN /\ pc' = "error"
                         /\ error' = TooFewUnique
                         /\ UNCHANGED resampleVars
                    ELSE /\ interp_x' = <<planned[1], executed[1]>>
                         /\ IF InterpDefined(planned[1], x_new)
                                /\ InterpDefined(executed[1], x_new)
                            THEN /\ planned_resampled' =
                                        Interp1d(planned[1], planned[2], x_new)
                                 /\ executed_resampled' =
                                        Interp1d(executed[1], executed[2], x_new)
                                 /\ pc' = "resampled"
                                 /\ UNCHANGED error
                            ELSE /\ pc' = "error"
                                 /\ error' = InterpFailed
                                 /\ UNCHANGED <<planned_resampled, executed_resampled>>
    /\ UNCHANGED <<mainVars, inputVars, trimVars, metricVars, helperVars>>

-----------------------------------------------------------------------------
(* Deviation metrics: lines 52-54 (joint) and 175-178 (Cartesian).  The    *)
(* model keeps every RMSE squared: np.sqrt is one-to-one and increasing on *)
(* the non-negative reals, and its values are not rational.                *)

FSquare(a) == FMul(a, a)

\* (planned_resampled - executed_resampled) ** 2
SquaredDiffs(p, e) ==
    [k \in DOMAIN p |-> [c \in DOMAIN p[k] |-> FSquare(FSub(p[k][c], e[k][c]))]]

\* np.mean of a one-dimensional array.
Mean(q) == FDiv(FSum(q), FInt(Len(q)))

RECURSIVE Flatten(_)
Flatten(rows) == IF rows = <<>> THEN <<>> ELSE rows[1] \o Flatten(Tail(rows))

Column(rows, c) == [k \in DOMAIN rows |-> rows[k][c]]

\* A slip: the total taken as the sum over the channels of the per-point
\* mean (the 3-D convention) instead of the mean over every entry.
TotalMeanPerPoint(p, e) ==
    FDiv(FSum(Flatten(SquaredDiffs(p, e))), FInt(Len(p)))

\* Line 53, squared: np.mean((planned - executed) ** 2, axis=0).
PerChannelMeanSquare(p, e) ==
    [c \in DOMAIN p[1] |-> Mean(Column(SquaredDiffs(p, e), c))]

\* Line 54, squared: np.mean((planned - executed) ** 2) over every entry.
TotalMeanSquare(p, e) == Mean(Flatten(SquaredDiffs(p, e)))

\* Lines 176-178, squared: np.mean(np.sum(diffs**2, axis=1)).
MeanSquaredDistance(p, e) ==
    LET squared_distances == [k \in DOMAIN p |-> FSum(SquaredDiffs(p, e)[k])]
    IN  Mean(squared_distances)

JointRmse ==
    /\ pc = "resampled"
    /\ mode = "joint"
    /\ rmse' = PerChannelMeanSquare(planned_resampled, executed_resampled)
    /\ total_rmse' = TotalMeanSquare(planned_resampled, executed_resampled)
    /\ pc' = "done"
    /\ UNCHANGED <<mainVars, inputVars,
                   trimVars, resampleVars, rmse_3d, error, helperVars>>

CartesianRmse ==
    /\ pc = "resampled"
    /\ mode = "cartesian"
    /\ rmse_3d' = MeanSquaredDistance(planned_resampled, executed_resampled)
    /\ pc' = "done"
    /\ UNCHANGED <<mainVars, inputVars,
                   trimVars, resampleVars, rmse, total_rmse, error, helperVars>>

-----------------------------------------------------------------------------
(* The pipeline specification: one call of either comparison function on   *)
(* every pair of frames within the bounds.                                 *)

\* Two points at distance 3 that differ in every channel.
PipePoints == {<<2, 0, 1>>, <<0, 1, 3>>}
\* Velocity values: still and moving.
PipeVel == {0, 2}
\* Thresholds: the default 0.0 and a positive one.
PipeThresholds == {0, 1}
\* Numbers of velocity columns in the executed file.
PipeVelColCounts == {0, 1}

Zip(A, B) == {<<a, b>> : a \in A, b \in B}

\* Frames of up to n rows whose velocity tuples have c entries.
Frames(c, n, velocities) ==
    LET rows == SeqsUpTo(Zip(VelTuples(velocities, c), PipePoints), n)
    IN  {[k \in DOMAIN r |-> [t |-> k, vel |-> r[k][1], pos |-> r[k][2]]] : r \in rows}

Init ==
    /\ pc = "start"
    /\ mode \in {"joint", "cartesian"}
    /\ vel_threshold \in PipeThresholds
    /\ n_points \in 1..MaxNPoints
    /\ df_planned \in Frames(0, MaxPlanRows, PipeVel)
    /\ vel_cols \in PipeVelColCounts
    /\ df_executed \in Frames(vel_cols, MaxExecRows, PipeVel)
    /\ Unassigned
    /\ NoHelperCall
    /\ NoMainCall

Next ==
    \/ JointTrim
    \/ CartesianTrim
    \/ JointResample
    \/ CartesianResample
    \/ JointRmse
    \/ CartesianRmse

Spec == Init /\ [][Next]_vars

-----------------------------------------------------------------------------
(* Direct calls of the helper functions. *)

NoPipelineCall ==
    /\ mode = None
    /\ vel_threshold = 0
    /\ n_points = 1
    /\ df_planned = <<>>
    /\ df_executed = <<>>
    /\ vel_cols = 0
    /\ Unassigned

\* Four corners of a 9 x 12 rectangle that lies askew in space: every
\* distance between two of them (9, 12 or 15) is an integer.
ArcPoints == {<<0, 0, 0>>, <<3, 6, 6>>, <<8, 4, -8>>, <<11, 10, -2>>}

\* [[1,1,1],[1,1,1],[1,1,1]]
CoincidentScenario == <<<<1, 1, 1>>, <<1, 1, 1>>, <<1, 1, 1>>>>

InitArc ==
    /\ pc = "call"
    /\ positions \in SeqsUpTo(ArcPoints, MaxArcPoints) \cup {CoincidentScenario}
    /\ s = None
    /\ ret = None
    /\ NoPipelineCall
    /\ NoMainCall

\* compute_arc_length_parametrization(positions)
ArcCall ==
    /\ pc = "call"
    /\ ret' = compute_arc_length_parametrization(positions)
    /\ pc' = "returned"
    /\ UNCHANGED <<mainVars, inputVars,
                   trimVars, resampleVars, metricVars, error, positions, s>>

NextArc == ArcCall

SpecArc == InitArc /\ [][NextArc]_vars

\* Coordinate values 0, 0.2, 0.5 and 1.0.
DupCoords == {<<0, 1>>, <<1, 5>>, <<1, 2>>, <<1, 1>>}

\* [0, 0.2, 0.2, 0.5, 1.0]
DuplicateScenario == <<<<0, 1>>, <<1, 5>>, <<1, 5>>, <<1, 2>>, <<1, 1>>>>

\* A value sequence whose entry at index i names i.
IndexedValues(n) == [i \in 1..n |-> <<i - 1, 0, 0>>]

InitDup ==
    /\ pc = "call"
    /\ s \in SeqsUpTo(DupCoords, MaxDupLen) \cup {DuplicateScenario}
    /\ positions = IndexedValues(Len(s))
    /\ ret = None
    /\ NoPipelineCall
    /\ NoMainCall

\* remove_duplicate_points(s, positions)
DupCall ==
    /\ pc = "call"
    /\ ret' = Returned(remove_duplicate_points(s, positions))
    /\ pc' = "returned"
    /\ UNCHANGED <<mainVars, inputVars,
                   trimVars, resampleVars, metricVars, error, positions, s>>

NextDup == DupCall

SpecDup == InitDup /\ [][NextDup]_vars

-----------------------------------------------------------------------------
(* The pose recovery of main: compare.py, lines 203-249. *)

\* Line 203.
pose_names ==
    <<"pose_x", "pose_y", "pose_z", "pose_qx", "pose_qy", "pose_qz", "pose_qw">>

\* Lines 166-173.
joint_names ==
    <<"shoulder_pan_joint", "shoulder_lift_joint", "elbow_joint",
      "wrist_1_joint", "wrist_2_joint", "wrist_3_joint">>

\* float("nan"), as a rational that is no number.
NaN == <<0, 0>>

\* Line 223: [float("nan")] * 7.
NaNPose == [i \in 1..7 |-> NaN]

\* What fk.compute_fk returns: None, or a Pose with a position and an
\* orientation (the values of lines 228-234, in that order).
FkNone == [none |-> TRUE, pose |-> <<>>]
FkPose(p) == [none |-> FALSE, pose |-> [i \in 1..7 |-> FInt(p[i])]]

\* The forward-kinematics service: fails or answers with some pose.
compute_fk(names, joint_positions) ==
    {FkNone, FkPose(<<1, 2, 3, 0, 0, 0, 1>>), FkPose(<<4, 5, 6, 0, 1, 0, 0>>)}

\* A slip: a failed sample skipped instead of recorded as not-a-number.
AppendPoseSkippingFailure(list, pose) ==
    IF pose.none THEN list ELSE Append(list, pose.pose)

\* Lines 221-236: poses.append(...) for one result of compute_fk.
AppendPose(list, pose) ==
    IF pose.none THEN Append(list, NaNPose) ELSE Append(list, pose.pose)

\* Line 209: all(col in df_executed.columns for col in pose_names).
AllPoseColumnsPresent == \A i \in DOMAIN pose_names : pose_names[i] \in pose_columns

\* Lines 205-215 and 248-249: load the executed file; with a pose column
\* missing create the FK client and the empty list, otherwise go on.
MainCheckPoseColumns ==
    /\ pc = "main"
    /\ IF AllPoseColumnsPresent
       THEN /\ pc' = "main_compare"
            /\ UNCHANGED <<fk, poses>>
       ELSE /\ fk' = "created"
            /\ poses' = <<>>
            /\ pc' = "fk_loop"
    /\ UNCHANGED <<pose_columns, fk_calls, iter_row, file_writes, inputVars, trimVars,
                   resampleVars, metricVars, error, helperVars>>

\* Lines 218-236: one iteration of the loop over df_executed.iterrows().
FkIteration ==
    /\ pc = "fk_loop"
    /\ iter_row < Len(df_executed)
    /\ LET row == df_executed[iter_row + 1]
           joint_positions == row.pos
       IN  \E pose \in compute_fk(joint_names, joint_positions) :
               /\ fk_calls' = Append(fk_calls,
                                     [joint_names |-> joint_names,
                                      joint_positions |-> joint_positions,
                                      returned |-> pose])
               /\ poses' = AppendPose(poses, pose)
    /\ iter_row' = iter_row + 1
    /\ UNCHANGED <<pc, pose_columns, fk, file_writes, inputVars, trimVars,
                   resampleVars, metricVars, error, helperVars>>

\* Lines 238-246: after the loop shut the client down, add the seven
\* columns and save the file.
FkFinish ==
    /\ pc = "fk_loop"
    /\ iter_row = Len(df_executed)
    /\ fk' = "shutdown"
    /\ pose_columns' = pose_columns \cup Range(pose_names)
    /\ file_writes' = Append(file_writes, poses)
    /\ pc' = "main_compare"
    /\ UNCHANGED <<fk_calls, poses, iter_row, inputVars, trimVars,
                   resampleVars, metricVars, error, helperVars>>

\* Joint configurations of a sample (the six joint position columns).
JointConfigs == {<<0, 0, 0, 0, 0, 0>>, <<1, 2, 3, 4, 5, 6>>}

\* The executed files: every pose column, none, or all but pose_qw.
PoseColumnSets == {Range(pose_names), {}, Range(pose_names) \ {"pose_qw"}}

FkFrames ==
    {[k \in DOMAIN r |-> [t |-> k, vel |-> <<>>, pos |-> r[k]]] :
        r \in SeqsUpTo(JointConfigs, MaxFkRows)}

InitMain ==
    /\ pc = "main"
    /\ mode = "cartesian"
    /\ vel_threshold = 0
    /\ n_points = 1
    /\ df_planned = <<>>
    /\ df_executed \in FkFrames
    /\ vel_cols = 0
    /\ Unassigned
    /\ NoHelperCall
    /\ pose_columns \in PoseColumnSets
    /\ fk = None
    /\ fk_calls = <<>>
    /\ poses = <<>>
    /\ iter_row = 0
    /\ file_writes = <<>>

NextMain ==
    \/ MainCheckPoseColumns
    \/ FkIteration
    \/ FkFinish

SpecMain == InitMain /\ [][NextMain]_vars

-----------------------------------------------------------------------------
(* Properties of the trimming block (checked under SpecTrim). *)

\* The trimming block of the called pipeline has run to its end.
Trimmed == pc = "trimmed"

\* Some velocity channel of the row exceeds the threshold in absolute terms.
MovesAbs(row, thr) == \E c \in DOMAIN row.vel : Abs(row.vel[c]) > thr

\* Some velocity channel of the row exceeds the threshold as a signed value.
Exceeds(row, thr) == \E c \in DOMAIN row.vel : row.vel[c] > thr

NonNegative(df) == \A k \in DOMAIN df : \A c \in DOMAIN df[k].vel : df[k].vel[c] >= 0

Least(S) == CHOOSE k \in S : \A j \in S : k <= j
Greatest(S) == CHOOSE k \in S : \A j \in S : j <= k

AbsMovingRows == {k \in DOMAIN df_executed : MovesAbs(df_executed[k], vel_threshold)}
ExceedingRows == {k \in DOMAIN df_executed : Exceeds(df_executed[k], vel_threshold)}

\* C1 (as claimed): for a positive threshold the trimmed result is the span
\* from the first to the last sample in which some velocity channel exceeds
\* the threshold in absolute terms, so a sample moving in the negative
\* direction is never dropped at either end.
C1_TrimByAbsoluteVelocity ==
    (pc # "start" /\ vel_threshold > 0 /\ AbsMovingRows # {})
        => /\ Trimmed
           /\ df_executed_clean =
                  SubSeq(df_executed, Least(AbsMovingRows), Greatest(AbsMovingRows))

\* C2 (as claimed): when no sample exceeds a positive threshold, the first
\* and the last retained index are both the first sample and the result is
\* the single-sample slice holding sample 0.
C2_StillGivesSingleSample ==
    (Trimmed /\ vel_threshold > 0 /\ vel_cols > 0 /\ df_executed # <<>>
        /\ ExceedingRows = {})
        => /\ start_index = 0
           /\ end_index = 0
           /\ df_executed_clean = <<df_executed[1]>>

\* C2 (amended): when no sample of a non-empty executed sequence exceeds a
\* positive threshold, the first retained index is the first sample and the
\* last retained index is the LAST sample, so the result is the whole
\* executed sequence, unchanged and never empty.
C2_StillKeepsWholeSequence ==
    (pc # "start" /\ vel_threshold > 0 /\ df_executed # <<>> /\ ExceedingRows = {})
        => /\ Trimmed
           /\ df_executed_clean = df_executed
           /\ df_executed_clean # <<>>
           /\ (mode = "joint" \/ vel_cols > 0)
                  => (start_index = 0 /\ end_index = Len(df_executed) - 1)

\* C2 witness: a still frame of several samples has been trimmed.
C2_Witness ==
    /\ Trimmed
    /\ vel_threshold > 0
    /\ vel_cols > 0
    /\ Len(df_executed) >= 2
    /\ ExceedingRows = {}
    /\ start_index = 0
    /\ end_index = Len(df_executed) - 1

\* C3 (as claimed): in both pipelines, with a non-positive threshold or no
\* velocity column the trimming returns the executed sequence unchanged
\* (stated here for the non-empty sequences).
C3_NoOpWithoutThresholdOrVelocity ==
    (pc # "start" /\ df_executed # <<>> /\ (vel_threshold <= 0 \/ vel_cols = 0))
        => /\ Trimmed
           /\ df_executed_clean = df_executed

\* C4: with non-negative velocities, a positive threshold and at least one
\* exceeding sample, the result is exactly the samples from the first to
\* the last exceeding one, both included, in order (interior samples kept,
\* outer ones dropped); [0,0,0,2,3,4,2,0,0,0] with threshold 1 gives the
\* samples 3..6.
C4_TrimToExceedingSpan ==
    (pc # "start" /\ vel_threshold > 0 /\ NonNegative(df_executed)
        /\ ExceedingRows # {})
        => /\ Trimmed
           /\ start_index = Least(ExceedingRows) - 1
           /\ end_index = Greatest(ExceedingRows) - 1
           /\ Len(df_executed_clean) = end_index - start_index + 1
           /\ \A i \in DOMAIN df_executed_clean :
                  df_executed_clean[i] = df_executed[start_index + i]
           /\ ([k \in DOMAIN df_executed |-> df_executed[k].vel] = ScenarioVel
                  => [i \in DOMAIN df_executed_clean |-> df_executed_clean[i].t - 1]
                         = <<3, 4, 5, 6>>)

\* C4 witness: the ten-sample scenario has been trimmed to four samples.
C4_Witness ==
    /\ Trimmed
    /\ vel_threshold = 1
    /\ [k \in DOMAIN df_executed |-> df_executed[k].vel] = ScenarioVel
    /\ start_index = 3
    /\ end_index = 6
    /\ Len(df_executed_clean) = 4

-----------------------------------------------------------------------------
(* Properties of resampling and of the metrics (checked under Spec). *)

\* The resampling block of the called pipeline has run (to its end or to
\* an exception).
ResampleRan ==
    \/ pc \in {"resampled", "done"}
    \/ pc = "error" /\ error # "EmptyArgmax"

\* The query coordinates np.linspace(0, 1, n_points).
QueryCoordinates == Linspace01(n_points)

\* C5 (as claimed): every coordinate sequence handed to the interpolator
\* starts at 0 and ends at 1, so every one of the n_points query
\* coordinates lies inside the interpolation domain (stated here for a
\* planned sequence of at least 2 samples and n_points >= 2).
C5_InterpolationDomainIsUnitInterval ==
    (Len(df_planned) >= 2 /\ n_points >= 2) =>
        \A i \in DOMAIN interp_x :
            LET x == interp_x[i]
            IN  /\ x # <<>>
                /\ x[1] = FInt(0)
                /\ x[Len(x)] = FInt(1)
                /\ \A k \in DOMAIN QueryCoordinates :
                       /\ FLe(x[1], QueryCoordinates[k])
                       /\ FLe(QueryCoordinates[k], x[Len(x)])

\* The distinct coordinate values the called pipeline has for a frame: the
\* normalized sample indices (joint), the arc-length coordinates when the
\* parametrizer returns any (Cartesian).
DistinctCoordinates(df) ==
    IF mode = "joint" THEN Range(Linspace01(Len(df)))
    ELSE LET arc == compute_arc_length_parametrization(IntValues(df))
         IN  IF arc.raised = None THEN Range(arc.value) ELSE {}

\* C6 (as claimed): whenever the planned or the trimmed executed sequence
\* has fewer than 2 distinct coordinate values, resampling fails with the
\* too-few-unique-points error before any interpolator is handed anything,
\* in the joint pipeline as in the Cartesian one (stated here for a
\* non-empty planned file and n_points >= 2).
C6_TooFewUniquePointsRaised ==
    (ResampleRan
        /\ df_planned # <<>>
        /\ n_points >= 2
        /\ (\/ Cardinality(DistinctCoordinates(df_planned)) < 2
            \/ Cardinality(DistinctCoordinates(df_executed_clean)) < 2))
        => /\ pc = "error"
           /\ error = TooFewUnique
           /\ interp_x = <<>>

\* The squared difference of planned and executed at point k, channel c.
SqErr(k, c) ==
    LET d == FSub(planned_resampled[k][c], executed_resampled[k][c]) IN FMul(d, d)

RECURSIVE SumOver(_, _, _)
\* The sum of f[i] for i in lo..hi.
SumOver(f, lo, hi) == IF lo > hi THEN FInt(0) ELSE FAdd(f[lo], SumOver(f, lo + 1, hi))

Channels == Len(planned_resampled[1])

\* The sum of the squared differences of channel c over the points.
ChannelSqErr(c) == SumOver([k \in 1..n_points |-> SqErr(k, c)], 1, n_points)

\* The sum of the squared differences over every (point, channel) pair.
AllSqErr == SumOver([c \in 1..Channels |-> ChannelSqErr(c)], 1, Channels)

\* C7: the joint total is the mean of the squared differences over all
\* (point, channel) pairs, the per-channel value the mean over the points
\* of one channel, the Cartesian 3-D value the mean over the points of the
\* squared norm of the difference (all before the root); on one pair of
\* resampled trajectories with C channels (3-D)^2 = C * (total)^2 and
\* (total)^2 is the mean over the channels of (per-channel)^2, so the two
\* aggregates differ unless they are 0; all are 0 on identical
\* trajectories.
C7_RmseConventions ==
    pc = "done" =>
        LET p == planned_resampled
            e == executed_resampled
            cart == MeanSquaredDistance(p, e)
            joint == TotalMeanSquare(p, e)
            channel == PerChannelMeanSquare(p, e)
        IN  /\ Len(p) = n_points /\ Len(e) = n_points
            /\ mode = "joint" =>
                   /\ total_rmse = FDiv(AllSqErr, FInt(n_points * Channels))
                   /\ \A c \in 1..Channels :
                          rmse[c] = FDiv(ChannelSqErr(c), FInt(n_points))
                   /\ total_rmse = joint /\ rmse = channel
            /\ mode = "cartesian" =>
                   /\ rmse_3d = FDiv(AllSqErr, FInt(n_points))
                   /\ rmse_3d = cart
            /\ cart = FMul(FInt(Channels), joint)
            /\ joint = FDiv(SumOver(channel, 1, Channels), FInt(Channels))
            /\ (joint # FInt(0)) => (cart # joint)
            /\ (p = e) => /\ cart = FInt(0)
                          /\ joint = FInt(0)
                          /\ \A c \in 1..Channels : channel[c] = FInt(0)

\* C7 witness: the joint metrics of two different resampled trajectories
\* of several points have been computed.
C7_Witness ==
    /\ pc = "done"
    /\ mode = "joint"
    /\ n_points >= 2
    /\ total_rmse # FInt(0)
    /\ rmse[1] # rmse[2]

-----------------------------------------------------------------------------
(* Properties of compute_arc_length_parametrization (checked under         *)
(* SpecArc).                                                               *)

\* Two consecutive points differ, so the total length is not zero.
HasLength(pts) == \E k \in 1..(Len(pts) - 1) : pts[k] # pts[k + 1]

\* C8: for at least 2 points with nonzero total length the result has one
\* coordinate per point, starts at 0, ends at 1, stays within [0,1], never
\* decreases, and two consecutive coordinates are equal exactly when the
\* two consecutive points coincide.
C8_ArcLengthCoordinates ==
    (pc = "returned" /\ Len(positions) >= 2 /\ HasLength(positions))
        => /\ ret.raised = None
           /\ Len(ret.value) = Len(positions)
           /\ ret.value[1] = FInt(0)
           /\ ret.value[Len(ret.value)] = FInt(1)
           /\ \A k \in DOMAIN ret.value :
                  FLe(FInt(0), ret.value[k]) /\ FLe(ret.value[k], FInt(1))
           /\ \A k \in 1..(Len(ret.value) - 1) :
                  /\ FLe(ret.value[k], ret.value[k + 1])
                  /\ (ret.value[k] = ret.value[k + 1]) <=> (positions[k] = positions[k + 1])

\* C8 witness: a path that stays on its first point for one step and then
\* moves has been parametrized; its first two coordinates repeat.
C8_Witness ==
    /\ pc = "returned"
    /\ Len(positions) = 3
    /\ positions[1] = positions[2]
    /\ positions[2] # positions[3]
    /\ ret.raised = None
    /\ ret.value = <<FInt(0), FInt(0), FInt(1)>>

\* C9: the parametrizer raises, and returns no coordinate sequence, exactly
\* when fewer than 2 points are supplied or all points coincide (as for
\* [[1,1,1],[1,1,1],[1,1,1]]); for every other input it returns a sequence
\* of numbers.
C9_ArcLengthFailsExactlyWhenDegenerate ==
    pc = "returned" =>
        /\ (ret.raised # None) <=> (Len(positions) < 2 \/ ~HasLength(positions))
        /\ (Len(positions) < 2) => (ret.raised = NeedTwoPoints)
        /\ (Len(positions) >= 2 /\ ~HasLength(positions)) => (ret.raised = ZeroArcLength)
        /\ (ret.raised # None) => (DOMAIN ret = {"raised"})
        /\ (ret.raised = None) =>
               \A k \in DOMAIN ret.value : ret.value[k] \in Int \X (Nat \ {0})

\* C9 witness: the three coincident points have been refused.
C9_Witness ==
    /\ pc = "returned"
    /\ positions = CoincidentScenario
    /\ ret.raised = ZeroArcLength

-----------------------------------------------------------------------------
(* Properties of remove_duplicate_points (checked under SpecDup). *)

\* The indices (0-based) of the first occurrence of each distinct value of
\* s, in input order.
FirstOccurrences ==
    LET keep == {i \in DOMAIN s : \A j \in 1..(i - 1) : s[j] # s[i]}
        nth[k \in 1..Cardinality(keep)] ==
            CHOOSE i \in keep : Cardinality({j \in keep : j <= i}) = k
    IN  [k \in 1..Cardinality(keep) |-> nth[k] - 1]

NonDecreasing(q) == \A k \in 1..(Len(q) - 1) : FLe(q[k], q[k + 1])

\* C10 (as claimed): for every coordinate sequence the filter keeps the
\* first occurrence of each distinct coordinate with the value at the same
\* index, both outputs equally long, the kept entries in their original
\* input order.
C10_FirstOccurrencesInInputOrder ==
    pc = "returned" =>
        /\ Len(ret.value[1]) = Len(ret.value[2])
        /\ ret.value[1] = [k \in DOMAIN FirstOccurrences |-> s[FirstOccurrences[k] + 1]]
        /\ ret.value[2] = [k \in DOMAIN FirstOccurrences |-> positions[FirstOccurrences[k] + 1]]

\* C10 (amended): for every coordinate sequence the filter keeps the first
\* occurrence of each distinct coordinate with the value at the same index,
\* both outputs equally long, the kept entries in ascending order of the
\* coordinate (so pairwise distinct); that is their original input order
\* whenever s is non-decreasing, and [0, 0.2, 0.2, 0.5, 1.0] gives the
\* entries at the indices 0, 1, 3, 4.
C10_FirstOccurrencesAscending ==
    pc = "returned" =>
        LET out_s == ret.value[1]
            out_v == ret.value[2]
        IN  /\ Len(out_s) = Len(out_v)
            /\ Len(out_s) = Cardinality(Range(s))
            /\ Range(out_s) = Range(s)
            /\ \A k \in 1..(Len(out_s) - 1) : FLt(out_s[k], out_s[k + 1])
            /\ \A k \in DOMAIN out_s :
                   \E i \in DOMAIN s :
                       /\ s[i] = out_s[k]
                       /\ \A j \in 1..(i - 1) : s[j] # s[i]
                       /\ out_v[k] = positions[i]
            /\ NonDecreasing(s) =>
                   /\ out_s = [k \in DOMAIN FirstOccurrences |-> s[FirstOccurrences[k] + 1]]
                   /\ out_v = [k \in DOMAIN FirstOccurrences |->
                                  positions[FirstOccurrences[k] + 1]]
            /\ (s = DuplicateScenario) =>
                   out_v = <<<<0, 0, 0>>, <<1, 0, 0>>, <<3, 0, 0>>, <<4, 0, 0>>>>

\* C10 witness: the five-coordinate scenario has been filtered to four
\* entries.
C10_Witness ==
    /\ pc = "returned"
    /\ s = DuplicateScenario
    /\ Len(ret.value[1]) = 4
    /\ ret.value[2] = <<positions[1], positions[2], positions[4], positions[5]>>

-----------------------------------------------------------------------------
(* Properties of the Cartesian error paths (checked under Spec). *)

\* All points of the frame coincide.
Coincident(df) == \A k \in DOMAIN df : df[k].pos = df[1].pos

\* The error the parametrizer has for a frame, None when it has none.
ParametrizerError(df) ==
    IF Len(df) < 2 THEN NeedTwoPoints
    ELSE IF Coincident(df) THEN ZeroArcLength
    ELSE None

\* The coordinate sequence of a frame after the duplicate filter.
FilteredCoordinates(df) ==
    remove_duplicate_points(compute_arc_length_parametrization(IntValues(df)).value,
                            Values(df))[1]

HasZeroAndOne(coords) ==
    /\ Len(coords) >= 2
    /\ FInt(0) \in Range(coords)
    /\ FInt(1) \in Range(coords)

\* C12: in the Cartesian pipeline the too-few-unique-points error is never
\* raised.  A planned or (trimmed) executed sequence with fewer than 2
\* points or with all points coincident is rejected by the parametrizer's
\* own error, the planned sequence first; when both parametrizer calls
\* return, each duplicate-filtered coordinate sequence has at least two
\* entries, 0 and 1 among them, and these sequences are what is handed on
\* to the interpolation, which then succeeds.
C12_TooFewUniqueNeverRaised ==
    (mode = "cartesian" /\ ResampleRan) =>
        /\ error # TooFewUnique
        /\ IF ParametrizerError(df_planned) # None
           THEN pc = "error" /\ error = ParametrizerError(df_planned)
           ELSE IF ParametrizerError(df_executed_clean) # None
           THEN pc = "error" /\ error = ParametrizerError(df_executed_clean)
           ELSE /\ pc \in {"resampled", "done"}
                /\ HasZeroAndOne(FilteredCoordinates(df_planned))
                /\ HasZeroAndOne(FilteredCoordinates(df_executed_clean))
                /\ interp_x = <<FilteredCoordinates(df_planned),
                                FilteredCoordinates(df_executed_clean)>>

\* Both parametrizer calls have returned in the Cartesian pipeline, the
\* filter has dropped a duplicate coordinate of the executed sequence, and
\* the two sequences have been resampled.
C12_Witness ==
    /\ mode = "cartesian"
    /\ pc = "resampled"
    /\ n_points >= 2
    /\ Len(interp_x) = 2
    /\ Len(interp_x[2]) = 2
    /\ Len(df_executed_clean) = 3

\* The executed sequence of the Cartesian pipeline has been trimmed to a
\* single sample and rejected by the parametrizer.
C12_TrimmedToOneSample ==
    /\ mode = "cartesian"
    /\ pc = "error"
    /\ error = NeedTwoPoints
    /\ Len(df_planned) >= 2
    /\ Len(df_executed) >= 2
    /\ Len(df_executed_clean) = 1

-----------------------------------------------------------------------------
(* Properties of the pose recovery of main (checked under SpecMain). *)

\* The compute_fk call made for row k of the executed file.
CallForSample(k) ==
    /\ fk_calls[k].joint_names = joint_names
    /\ fk_calls[k].joint_positions = df_executed[k].pos

\* The entry of poses for call k: seven not-a-number values after a failed
\* call, the seven values of the returned pose otherwise.
PoseRecorded(k) ==
    /\ Len(poses[k]) = 7
    /\ IF fk_calls[k].returned.none
       THEN \A i \in 1..7 : poses[k][i] = NaN
       ELSE poses[k] = fk_calls[k].returned.pose

\* C11: with a pose column missing from the executed file, compute_fk is
\* called once per sample in sample order (the calls so far are the
\* calls for the first samples, and all of them once the client is shut
\* down); every call, failed or not, leaves exactly one entry in poses, a
\* failed one seven not-a-number values, and the loop goes on; the client
\* is shut down and the file saved, once and with those poses, only after
\* the last sample; with every pose column present the client is never
\* created, compute_fk never called and the file never saved.
C11_PoseRecoveryPerSample ==
    /\ Len(fk_calls) = iter_row
    /\ Len(fk_calls) <= Len(df_executed)
    /\ Len(poses) = Len(fk_calls)
    /\ \A k \in 1..Len(fk_calls) : CallForSample(k) /\ PoseRecorded(k)
    /\ fk = "shutdown" <=> file_writes # <<>>
    /\ fk = "shutdown" =>
          /\ Len(fk_calls) = Len(df_executed)
          /\ file_writes = <<poses>>
    /\ pc = "main_compare" => AllPoseColumnsPresent /\ fk \in {None, "shutdown"}
    /\ pc = "fk_loop" => fk = "created"
    /\ (AllPoseColumnsPresent /\ fk # "shutdown") =>
          /\ fk = None
          /\ fk_calls = <<>>
          /\ file_writes = <<>>

\* A three-sample file without pose columns has been recovered and saved:
\* the call for the first sample failed, the call for the second, a
\* different joint configuration, succeeded.
C11_Witness ==
    /\ pc = "main_compare"
    /\ fk = "shutdown"
    /\ Len(df_executed) = 3
    /\ Len(fk_calls) = 3
    /\ fk_calls[1].returned.none
    /\ ~fk_calls[2].returned.none
    /\ df_executed[1].pos # df_executed[2].pos
    /\ file_writes # <<>>

=============================================================================
